---- MODULE Spec2Model ----
(***************************************************************************)
(* A model of mosmo/preso/escher/escher_map.py: the Color value type, the  *)
(* Scale styler, the construction of an EscherMap from a parsed document   *)
(* and its rendering to an SVG element tree.                               *)
(*                                                                         *)
(* Numbers.  Python floats are modelled as exact rationals [n, d] in     *)
(* lowest terms with d > 0; math.sqrt is modelled by the integer square    *)
(* root (exact on the perfect squares the bounded documents produce).      *)
(* None is the record [t |-> "None"].  A call that raises is modelled by   *)
(* the record [exc |-> <exception class>], a call that returns by          *)
(* [exc |-> "none", val |-> <value>].                                      *)
(***************************************************************************)
EXTENDS Integers, Sequences, FiniteSets, TLC

VARIABLES
    hexstr,     \* Color: the string handed to Color.from_hex
    color,      \* Color: outcome of from_hex / of the arithmetic so far
    text,       \* Color: outcome of str(color), None before the call
    nops,       \* Color: number of arithmetic operations applied
    stopsIn,    \* Scale: the stops mapping handed to Scale.__init__
    useAbs,     \* Scale: the use_abs argument
    scale,      \* Scale: outcome of Scale.__init__, None before the call
    value,      \* Scale: the argument of the last style() call
    styled,     \* Scale: outcome of the last style() call
    doc,        \* Map: the arguments of EscherMap(...): document and scales
    emap,       \* Map: outcome of EscherMap.__init__, None before the call
    call,       \* Map: the overlays of the last to_svg call, as the call left them
    svg,        \* Map: outcome of the last to_svg call
    first,      \* Map: arguments and outcome of the first to_svg call, when tracked
    ncalls      \* Map: number of to_svg calls made, when tracked

colorVars == <<hexstr, color, text, nops>>
scaleVars == <<stopsIn, useAbs, scale, value, styled>>
mapVars == <<doc, emap, call, svg, first, ncalls>>
vars == <<hexstr, color, text, nops, stopsIn, useAbs, scale, value, styled,
          doc, emap, call, svg, first, ncalls>>

-----------------------------------------------------------------------------
(* Values shared by all components *)

None == [t |-> "None"]

Ok(v) == [exc |-> "none", val |-> v]

Raise(e) == [exc |-> e]

IsOk(res) == res # None /\ res.exc = "none"

Raised(res) == res # None /\ res.exc # "none"

\* Body(v) with v taken by value: the code evaluates an expression once and
\* binds the result to a local name.
With(v, Body(_)) == CHOOSE r \in {Body(x) : x \in {v}} : TRUE

\* The operations on numbers take their operands by value, as the code does:
\* each is the application of a function to the operands.
Abs(i) == LET F[x \in Int] == IF x < 0 THEN -x ELSE x IN F[i]

Sign(i) == LET F[x \in Int] == IF x < 0 THEN -1 ELSE IF x > 0 THEN 1 ELSE 0 IN F[i]

GCD(a, b) ==
    LET F[x \in Nat, y \in Nat] == IF y = 0 THEN x ELSE F[y, x % y] IN F[a, b]

\* The rational n/d in lowest terms, d # 0.
Q(n, d) ==
    LET F[x \in Int, y \in Int] ==
            LET g == GCD(Abs(x), Abs(y))
                s == IF y < 0 THEN -1 ELSE 1
            IN  [n |-> (s * x) \div g, d |-> (s * y) \div g]
    IN  F[n, d]

I(n) == [n |-> n, d |-> 1]

\* The numbers: floats, held as exact rationals.
Rat == [n : Int, d : Int]

QAdd(a, b) ==
    LET F[x \in Rat, y \in Rat] == Q(x.n * y.d + y.n * x.d, x.d * y.d) IN F[a, b]

QSub(a, b) ==
    LET F[x \in Rat, y \in Rat] == Q(x.n * y.d - y.n * x.d, x.d * y.d) IN F[a, b]

QMul(a, b) == LET F[x \in Rat, y \in Rat] == Q(x.n * y.n, x.d * y.d) IN F[a, b]

\* a / b for b # 0 (the callers raise ZeroDivisionError themselves).
QDiv(a, b) == LET F[x \in Rat, y \in Rat] == Q(x.n * y.d, x.d * y.n) IN F[a, b]

QLt(a, b) == LET F[x \in Rat, y \in Rat] == x.n * y.d < y.n * x.d IN F[a, b]

QLe(a, b) == LET F[x \in Rat, y \in Rat] == x.n * y.d <= y.n * x.d IN F[a, b]

QAbs(a) == LET F[x \in Rat] == [n |-> Abs(x.n), d |-> x.d] IN F[a]

\* Python int(x): truncation toward zero.
QTrunc(a) == LET F[x \in Rat] == Sign(x.n) * (Abs(x.n) \div x.d) IN F[a]

\* Round to the nearest integer, halves away from zero.
QRound(a) ==
    LET F[x \in Rat] == Sign(x.n) * ((2 * Abs(x.n) + x.d) \div (2 * x.d)) IN F[a]

-----------------------------------------------------------------------------
(* Color *)

\* Bounds of the Color specifications.
MaxHexLen == 8
MaxOps == 2

\* The characters input strings are drawn from: the marker, a hex digit, a
\* letter that is no hex digit, a sign and a blank.
Chars == {"#", "f", "g", "-", " "}

LowerDigits == <<"0", "1", "2", "3", "4", "5", "6", "7", "8", "9",
                 "a", "b", "c", "d", "e", "f">>

UpperDigits == <<"0", "1", "2", "3", "4", "5", "6", "7", "8", "9",
                 "A", "B", "C", "D", "E", "F">>

IsHexDigit(c) ==
    \E i \in 1..16 : LowerDigits[i] = c \/ UpperDigits[i] = c

HexVal(c) ==
    (CHOOSE i \in 1..16 : LowerDigits[i] = c \/ UpperDigits[i] = c) - 1

IsSpace(c) == c \in {" "}

RECURSIVE LStrip(_)
LStrip(s) == IF s # <<>> /\ IsSpace(Head(s)) THEN LStrip(Tail(s)) ELSE s

RECURSIVE RStrip(_)
RStrip(s) ==
    IF s # <<>> /\ IsSpace(s[Len(s)]) THEN RStrip(SubSeq(s, 1, Len(s) - 1)) ELSE s

\* The digits of an integer literal: hex digits, single underscores allowed
\* between two digits only.
DigitsWellFormed(s) ==
    /\ s # <<>>
    /\ \A i \in 1..Len(s) : IsHexDigit(s[i]) \/ s[i] = "_"
    /\ IsHexDigit(s[1]) /\ IsHexDigit(s[Len(s)])
    /\ \A i \in 1..(Len(s) - 1) : ~(s[i] = "_" /\ s[i + 1] = "_")

RECURSIVE DigitsValue(_, _)
DigitsValue(s, acc) ==
    IF s = <<>> THEN acc
    ELSE IF Head(s) = "_" THEN DigitsValue(Tail(s), acc)
    ELSE DigitsValue(Tail(s), 16 * acc + HexVal(Head(s)))

\* Python's int(s, 16) on a string: surrounding whitespace is stripped, one
\* sign is accepted, then come the digits.  (A "0x" prefix needs a digit after
\* it, so it cannot occur in the two-character slices from_hex passes; here
\* "x" is no digit and the literal is rejected, as Python rejects "0x".)
IntBase16(s) ==
    LET t == RStrip(LStrip(s))
        signed == t # <<>> /\ Head(t) \in {"+", "-"}
        digits == IF signed THEN Tail(t) ELSE t
    IN  IF ~DigitsWellFormed(digits) THEN Raise("ValueError")
        ELSE IF signed /\ Head(t) = "-" THEN Ok(-DigitsValue(digits, 0))
        ELSE Ok(DigitsValue(digits, 0))

\* Python slice s[a:b] with 0 <= a <= b (0-based, end exclusive, clipped).
Slice(s, a, b) ==
    LET hi == IF b < Len(s) THEN b ELSE Len(s)
    IN  IF a >= hi THEN <<>> ELSE SubSeq(s, a + 1, hi)

\* A Python str value, as opposed to None.
PyStr(s) == [t |-> "str", s |-> s]

\* str.startswith for a one-character prefix.
StartsWith(s, c) == Len(s) >= 1 /\ s[1] = c

MkColor(r, g, b) == [r |-> r, g |-> g, b |-> b]

\* Color.from_hex.  None has no startswith (AttributeError).  The three int()
\* calls are evaluated left to right and the first failure propagates.
from_hex(hexstring) ==
    IF hexstring = None THEN Raise("AttributeError")
    ELSE IF StartsWith(hexstring.s, "#") /\ Len(hexstring.s) = 7
    THEN LET h == hexstring.s
             r == IntBase16(Slice(h, 1, 3))
             g == IntBase16(Slice(h, 3, 5))
             b == IntBase16(Slice(h, 5, Len(h)))
         IN  IF Raised(r) THEN r
             ELSE IF Raised(g) THEN g
             ELSE IF Raised(b) THEN b
             ELSE Ok(MkColor(I(r.val), I(g.val), I(b.val)))
    ELSE Raise("ValueError")

RECURSIVE HexOf(_)
\* The lowercase hex digits of k >= 0, no padding.
HexOf(k) ==
    IF k < 16 THEN <<LowerDigits[k + 1]>>
    ELSE HexOf(k \div 16) \o <<LowerDigits[(k % 16) + 1]>>

RECURSIVE ZeroPad(_, _)
ZeroPad(s, w) == IF Len(s) >= w THEN s ELSE ZeroPad(<<"0">> \o s, w)

\* format(k, "02x"): the sign counts toward the minimum width of 2.
Fmt02x(k) ==
    IF k < 0 THEN <<"-">> \o ZeroPad(HexOf(-k), 1) ELSE ZeroPad(HexOf(k), 2)

\* int(x + 0.5) rendered by the 02x format.
ChannelStr(x) == Fmt02x(QTrunc(QAdd(x, Q(1, 2))))

\* Color.__str__
ColorStr(c) == <<"#">> \o ChannelStr(c.r) \o ChannelStr(c.g) \o ChannelStr(c.b)

\* Color.__add__
ColorAdd(a, b) == MkColor(QAdd(a.r, b.r), QAdd(a.g, b.g), QAdd(a.b, b.b))

\* Color.__sub__
ColorSub(a, b) == MkColor(QSub(a.r, b.r), QSub(a.g, b.g), QSub(a.b, b.b))

\* Color.__mul__ and __rmul__
ColorMul(a, f) == MkColor(QMul(a.r, f), QMul(a.g, f), QMul(a.b, f))

\* Color.__truediv__
ColorDiv(a, f) ==
    IF f.n = 0 THEN Raise("ZeroDivisionError")
    ELSE Ok(MkColor(QDiv(a.r, f), QDiv(a.g, f), QDiv(a.b, f)))

\* The strings handed to from_hex: every string over Chars up to MaxHexLen.
HexStrings == UNION {[1..n -> Chars] : n \in 0..MaxHexLen}

\* Well-formed literals used as operands of the arithmetic.
Palette == {<<"#", "0", "0", "0", "0", "0", "0">>,
            <<"#", "1", "0", "8", "0", "f", "f">>,
            <<"#", "0", "9", "a", "b", "0", "1">>}

Factors == {Q(1, 2), I(2), I(-1)}

ScaleIdle ==
    /\ stopsIn = <<>> /\ useAbs = FALSE /\ scale = None
    /\ value = None /\ styled = None

MapIdle ==
    /\ doc = None /\ emap = None /\ call = None /\ svg = None
    /\ first = None /\ ncalls = 0

InitHex ==
    /\ hexstr \in HexStrings
    /\ color = None /\ text = None /\ nops = 0
    /\ ScaleIdle
    /\ MapIdle

InitColor ==
    /\ hexstr \in Palette
    /\ color = None /\ text = None /\ nops = 0
    /\ ScaleIdle
    /\ MapIdle

\* color = Color.from_hex(hexstr)
FromHex ==
    /\ color = None
    /\ color' = from_hex(PyStr(hexstr))
    /\ UNCHANGED <<hexstr, text, nops, scaleVars, mapVars>>

CanOperate == IsOk(color) /\ text = None /\ nops < MaxOps

\* color = color + Color.from_hex(h)
Add ==
    /\ CanOperate
    /\ \E h \in Palette : color' = Ok(ColorAdd(color.val, from_hex(PyStr(h)).val))
    /\ nops' = nops + 1
    /\ UNCHANGED <<hexstr, text, scaleVars, mapVars>>

\* color = color - Color.from_hex(h)
Sub ==
    /\ CanOperate
    /\ \E h \in Palette : color' = Ok(ColorSub(color.val, from_hex(PyStr(h)).val))
    /\ nops' = nops + 1
    /\ UNCHANGED <<hexstr, text, scaleVars, mapVars>>

\* color = color * f (or f * color)
Mul ==
    /\ CanOperate
    /\ \E f \in Factors : color' = Ok(ColorMul(color.val, f))
    /\ nops' = nops + 1
    /\ UNCHANGED <<hexstr, text, scaleVars, mapVars>>

\* color = color / f
Div ==
    /\ CanOperate
    /\ \E f \in Factors \cup {I(0)} : color' = ColorDiv(color.val, f)
    /\ nops' = nops + 1
    /\ UNCHANGED <<hexstr, text, scaleVars, mapVars>>

\* text = str(color)
Str ==
    /\ IsOk(color) /\ text = None
    /\ text' = ColorStr(color.val)
    /\ UNCHANGED <<hexstr, color, nops, scaleVars, mapVars>>

NextHex == FromHex \/ Str

NextColor == FromHex \/ Add \/ Sub \/ Mul \/ Div \/ Str

SpecHex == InitHex /\ [][NextHex]_vars

SpecColor == InitColor /\ [][NextColor]_vars

-----------------------------------------------------------------------------
(* Scale *)

\* Bound of the Scale specification: stop values are -10 and 10 * (1 .. MaxStopKey).
MaxStopKey == 2

StopKeys == {-10} \cup {10 * k : k \in 1..MaxStopKey}

\* The values handed to style(): every stop value, values between
\* neighbouring stop values, and one value beyond either end.
StyleValues == {5 * k : k \in -3..(2 * MaxStopKey + 1)}

\* What a stop may give as its color and as its size.
ColorChoices == {None,
                 PyStr(<<"#", "0", "0", "0", "0", "0", "0">>),
                 PyStr(<<"#", "f", "f", "8", "0", "0", "0">>),
                 PyStr(<<"r", "e", "d">>)}

SizeChoices == {None, I(0), I(20)}

StopChoices == [color : ColorChoices, size : SizeChoices]

\* The stops mappings: value -> (color, size) on any subset of StopKeys.
StopMappings == UNION {[K -> StopChoices] : K \in SUBSET StopKeys}

Min(S) == CHOOSE x \in S : \A y \in S : x <= y

RECURSIVE SortedSeq(_)
\* sorted(...): the elements of a set of integers in ascending order.
SortedSeq(S) ==
    IF S = {} THEN <<>> ELSE <<Min(S)>> \o SortedSeq(S \ {Min(S)})

MkStop(v, c, sz) == [value |-> v, color |-> c, size |-> sz]

\* The generator of Scale.__init__: one (value, Color.from_hex(color), size)
\* per item, the first from_hex failure propagating.  Items are taken in
\* ascending order of their key.
RECURSIVE ConvertStops(_, _)
ConvertStops(stops, keys) ==
    IF keys = <<>> THEN Ok(<<>>)
    ELSE LET k == Head(keys)
             c == from_hex(stops[k].color)
             rest == ConvertStops(stops, Tail(keys))
         IN  IF Raised(c) THEN c
             ELSE IF Raised(rest) THEN rest
             ELSE Ok(<<MkStop(I(k), c.val, stops[k].size)>> \o rest.val)

\* Scale.__init__: the converted stops sorted by value, and use_abs.
ScaleInit(stops, use_abs) ==
    LET conv == ConvertStops(stops, SortedSeq(DOMAIN stops))
    IN  IF Raised(conv) THEN conv
        ELSE Ok([stops |-> conv.val, use_abs |-> use_abs])

\* A style() that forgets use_abs.
EffectiveValue_IgnoresAbs(use_abs, v) == v

\* Lines 102-103: the value style() works on.
EffectiveValue(use_abs, v) == IF use_abs THEN QAbs(v) ELSE v

\* Python truthiness of a stop's color: a Color instance is always true.
ColorTruthy(c) == c # None

\* Python truthiness of a stop's size: None and 0 are false.
SizeTruthy(sz) == sz # None /\ sz.n # 0

\* Lines 112-116: lb starts at the first stop; each later stop is bound to
\* ub in turn, the scan breaking at the first with ub.value >= value.  bound
\* tells whether ub was ever assigned.
RECURSIVE Bracket(_, _, _, _, _)
Bracket(stops, i, lb, ub, v) ==
    IF i > Len(stops) THEN [lb |-> lb, ub |-> ub, bound |-> ub # None]
    ELSE IF QLe(v, stops[i].value) THEN [lb |-> lb, ub |-> stops[i], bound |-> TRUE]
    ELSE Bracket(stops, i + 1, stops[i], stops[i], v)

BlendColor(p, ub, lb) ==
    ColorAdd(ColorMul(ub, p), ColorMul(lb, QSub(I(1), p)))

BlendSize(p, ub, lb) == QAdd(QMul(p, ub), QMul(QSub(I(1), p), lb))

MkStyle(c, sz) == [color |-> c, size |-> sz]

\* Lines 118-128: interpolation between the bracketing stops.
Interpolate(lb, ub, v) ==
    IF QSub(ub.value, lb.value).n = 0 THEN Raise("ZeroDivisionError")
    ELSE LET p == QDiv(QSub(v, lb.value), QSub(ub.value, lb.value))
         IN  Ok(MkStyle(
                 IF ColorTruthy(lb.color) /\ ColorTruthy(ub.color)
                     THEN BlendColor(p, ub.color, lb.color) ELSE None,
                 IF SizeTruthy(lb.size) /\ SizeTruthy(ub.size)
                     THEN BlendSize(p, ub.size, lb.size) ELSE None))

\* Scale.style
style(sc, val) ==
    LET v == EffectiveValue(sc.use_abs, val)
        stops == sc.stops
        n == Len(stops)
    IN  IF n = 0 THEN Raise("IndexError")
        ELSE IF QLt(v, stops[1].value)
            THEN Ok(MkStyle(stops[1].color, stops[1].size))
        ELSE IF QLt(stops[n].value, v)
            THEN Ok(MkStyle(stops[n].color, stops[n].size))
        ELSE LET br == Bracket(stops, 2, stops[1], None, v)
             IN  IF ~br.bound THEN Raise("UnboundLocalError")
                 ELSE Interpolate(br.lb, br.ub, v)

ColorIdle == hexstr = <<>> /\ color = None /\ text = None /\ nops = 0

InitScale ==
    /\ stopsIn \in StopMappings
    /\ useAbs \in BOOLEAN
    /\ scale = None /\ value = None /\ styled = None
    /\ ColorIdle
    /\ MapIdle

\* scale = Scale(stopsIn, useAbs)
Construct ==
    /\ scale = None
    /\ scale' = ScaleInit(stopsIn, useAbs)
    /\ UNCHANGED <<stopsIn, useAbs, value, styled, colorVars, mapVars>>

\* styled = scale.style(v)
Style ==
    /\ IsOk(scale)
    /\ \E v \in StyleValues :
          /\ value' = I(v)
          /\ styled' = style(scale.val, I(v))
    /\ UNCHANGED <<stopsIn, useAbs, scale, colorVars, mapVars>>

NextScale == Construct \/ Style

SpecScale == InitScale /\ [][NextScale]_vars

-----------------------------------------------------------------------------
(* The map model: EscherMap, MapNode, MapMetabolite, MapReaction, MapSegment *)

\* Bound of the Map specifications: stoichiometric coefficients are the
\* halves k/2 for k in -MaxHalfCoeff .. MaxHalfCoeff.
MaxHalfCoeff == 3

Coeffs == {Q(k, 2) : k \in (-MaxHalfCoeff)..MaxHalfCoeff}

Pt(x, y) == [x |-> I(x), y |-> I(y)]

\* The "nodes" table of the documents: two markers and two metabolites, the
\* primary A and the secondary B.  The points are chosen so that every
\* length a metabolite segment takes the square root for is a whole number.
NodeOrder == <<"c1", "c2", "mA", "mB">>

NodesJson ==
    [c1 |-> [node_type |-> "midmarker", x |-> I(0), y |-> I(0)],
     c2 |-> [node_type |-> "multimarker", x |-> I(100), y |-> I(0)],
     mA |-> [node_type |-> "metabolite", x |-> I(30), y |-> I(40),
             bigg_id |-> "A", node_is_primary |-> TRUE,
             label_x |-> I(40), label_y |-> I(50)],
     mB |-> [node_type |-> "metabolite", x |-> I(30), y |-> I(0),
             bigg_id |-> "B", node_is_primary |-> FALSE,
             label_x |-> I(40), label_y |-> I(10)]]

CanvasJson == [x |-> I(0), y |-> I(0), width |-> I(200), height |-> I(100)]

SegJson(f, t, b1, b2) ==
    [from_node_id |-> f, to_node_id |-> t, b1 |-> b1, b2 |-> b2]

\* The first segment of the reaction: any pair of c1, mA, mB as endpoints,
\* b1 absent or a point, b2 absent, a point, or the centre of mA.
FirstSegments ==
    {SegJson(f, t, b1, b2) :
        f \in {"c1", "mA", "mB"}, t \in {"c1", "mA", "mB"},
        b1 \in {None, Pt(30, 20)}, b2 \in {None, Pt(30, 10), Pt(30, 40)}}

\* The second segment: a connector between the markers, or a curved segment
\* written from the metabolite B to the marker.
SecondSegments ==
    {SegJson("c1", "c2", None, None),
     SegJson("mB", "c1", Pt(20, 0), Pt(10, 0))}

MetJson(id, coeff) == [bigg_id |-> id, coefficient |-> coeff]

\* The "metabolites" list of the reaction: A with coefficient c and B with -c,
\* or A alone.
MetaboliteLists ==
    {<<MetJson("A", c), MetJson("B", QSub(I(0), c))>> : c \in Coeffs}
        \cup {<<MetJson("A", I(-1))>>}

ReactionJson(mets, rev, s1, s2) ==
    [bigg_id |-> "R1", metabolites |-> mets, reversibility |-> rev,
     label_x |-> I(50), label_y |-> I(20), segments |-> <<s1, s2>>]

\* The parsed documents (map_json[1]); dicts are given as the sequence of
\* their items' values where the code iterates over them.
MapJsons ==
    {[canvas |-> CanvasJson, nodes |-> NodesJson,
      reactions |-> <<ReactionJson(mets, rev, s1, s2)>>] :
        mets \in MetaboliteLists, rev \in BOOLEAN,
        s1 \in FirstSegments, s2 \in SecondSegments}

\* GaBu(): Scale({0: ("#eeeeee", 5), 100: ("#1f77b4", 20)}, use_abs=True)
GaBu ==
    ScaleInit(
        (0 :> [color |-> PyStr(<<"#", "e", "e", "e", "e", "e", "e">>), size |-> I(5)]) @@
        (100 :> [color |-> PyStr(<<"#", "1", "f", "7", "7", "b", "4">>), size |-> I(20)]),
        TRUE).val

\* The arguments of EscherMap(...): the document, and no scale or the GaBu
\* preset for both scales.
MapArgs ==
    {[map_json |-> j, width |-> None, height |-> None,
      reaction_scale |-> sc, metabolite_scale |-> sc] :
        j \in MapJsons, sc \in {None, GaBu}}

\* MapNode.__init__
MapNodeInit(node_json) ==
    [kind |-> "MapNode", center |-> [x |-> node_json.x, y |-> node_json.y]]

\* MapMetabolite.__init__
MapMetaboliteInit(node_json) ==
    [kind |-> "MapMetabolite",
     center |-> [x |-> node_json.x, y |-> node_json.y],
     metabolite_id |-> node_json.bigg_id,
     primary |-> node_json.node_is_primary,
     label_pos |-> [x |-> node_json.label_x, y |-> node_json.label_y]]

IsMetabolite(node) == node.kind = "MapMetabolite"

\* The dict comprehension of line 350: a later item of the list replaces an
\* earlier one with the same id.
StoichOf(mets) ==
    [id \in {mets[i].bigg_id : i \in 1..Len(mets)} |->
        mets[CHOOSE i \in 1..Len(mets) :
                /\ mets[i].bigg_id = id
                /\ \A j \in (i + 1)..Len(mets) : mets[j].bigg_id # id].coefficient]

\* An orientation that swaps the endpoints and leaves b1 and b2 in place.
Oriented_KeepsControlPoints(segment_json, all_nodes) ==
    LET swap == IsMetabolite(all_nodes[segment_json.from_node_id])
    IN  [from_node |-> IF swap THEN segment_json.to_node_id
                               ELSE segment_json.from_node_id,
         to_node |-> IF swap THEN segment_json.from_node_id
                             ELSE segment_json.to_node_id,
         b1 |-> segment_json.b1,
         b2 |-> segment_json.b2]

\* Lines 388-396: the endpoints and control points of a segment, swapped
\* when the from node is a metabolite.
Oriented(segment_json, all_nodes) ==
    LET swap == IsMetabolite(all_nodes[segment_json.from_node_id])
    IN  [from_node |-> IF swap THEN segment_json.to_node_id
                               ELSE segment_json.from_node_id,
         to_node |-> IF swap THEN segment_json.from_node_id
                             ELSE segment_json.to_node_id,
         b1 |-> IF swap THEN segment_json.b2 ELSE segment_json.b1,
         b2 |-> IF swap THEN segment_json.b1 ELSE segment_json.b2]

\* MapSegment.__init__ (the back reference to the reaction is left out; the
\* nodes are referred to by their id in all_nodes).
MapSegmentInit(stoich, reversible, segment_json, all_nodes) ==
    IF segment_json.from_node_id \notin DOMAIN all_nodes THEN Raise("KeyError")
    ELSE IF segment_json.to_node_id \notin DOMAIN all_nodes THEN Raise("KeyError")
    ELSE With(Oriented(segment_json, all_nodes), LAMBDA base :
         IF IsMetabolite(all_nodes[base.to_node])
         THEN With(all_nodes[base.to_node].metabolite_id, LAMBDA id :
              IF id \notin DOMAIN stoich THEN Raise("KeyError")
              ELSE Ok(base @@
                      [metabolite_id |-> PyStr(id),
                       count |-> stoich[id],
                       has_arrow |-> QLt(I(0), stoich[id]) \/ reversible]))
         ELSE Ok(base @@
                 [metabolite_id |-> None, count |-> None, has_arrow |-> FALSE]))

\* The list comprehension of lines 354-355: the first failure propagates.
RECURSIVE SegmentsInit(_, _, _, _)
SegmentsInit(stoich, reversible, segs, all_nodes) ==
    IF segs = <<>> THEN Ok(<<>>)
    ELSE With(MapSegmentInit(stoich, reversible, Head(segs), all_nodes), LAMBDA hd :
         IF Raised(hd) THEN hd
         ELSE With(SegmentsInit(stoich, reversible, Tail(segs), all_nodes), LAMBDA tl :
              IF Raised(tl) THEN tl ELSE Ok(<<hd.val>> \o tl.val)))

\* MapReaction.__init__
MapReactionInit(reaction_json, all_nodes) ==
    With(StoichOf(reaction_json.metabolites), LAMBDA stoich :
    With(SegmentsInit(stoich, reaction_json.reversibility,
                      reaction_json.segments, all_nodes), LAMBDA segs :
        IF Raised(segs) THEN segs
        ELSE Ok([reaction_id |-> reaction_json.bigg_id,
                 stoich |-> stoich,
                 reversible |-> reaction_json.reversibility,
                 label_pos |-> [x |-> reaction_json.label_x,
                                y |-> reaction_json.label_y],
                 segments |-> segs.val])))

\* The loop of lines 207-208.
RECURSIVE ReactionsInit(_, _)
ReactionsInit(rs, all_nodes) ==
    IF rs = <<>> THEN Ok(<<>>)
    ELSE With(MapReactionInit(Head(rs), all_nodes), LAMBDA hd :
         IF Raised(hd) THEN hd
         ELSE With(ReactionsInit(Tail(rs), all_nodes), LAMBDA tl :
              IF Raised(tl) THEN tl ELSE Ok(<<hd.val>> \o tl.val)))

\* The nodes the loop of lines 198-204 makes of the "nodes" table.
AllNodes(nodes) ==
    [id \in DOMAIN nodes |->
        IF nodes[id].node_type = "metabolite"
            THEN MapMetaboliteInit(nodes[id])
            ELSE MapNodeInit(nodes[id])]

\* EscherMap.__init__ (the widget, which to_svg never touches, is left out).
EscherMapInit(args) ==
    With(AllNodes(args.map_json.nodes), LAMBDA all_nodes :
    With(ReactionsInit(args.map_json.reactions, all_nodes), LAMBDA reactions :
        IF Raised(reactions) THEN reactions
        ELSE Ok([width |-> args.width, height |-> args.height,
                 reaction_scale |-> args.reaction_scale,
                 metabolite_scale |-> args.metabolite_scale,
                 origin |-> [x |-> args.map_json.canvas.x,
                             y |-> args.map_json.canvas.y],
                 size |-> [x |-> args.map_json.canvas.width,
                           y |-> args.map_json.canvas.height],
                 all_nodes |-> all_nodes,
                 metabolites |->
                     SelectSeq(NodeOrder,
                               LAMBDA id : args.map_json.nodes[id].node_type
                                               = "metabolite"),
                 reactions |-> reactions.val])))

-----------------------------------------------------------------------------
(* Rendering: the to_svg methods.  An ET.Element is the record [tag, attrib,  *)
(* children], with a text field when its text is set.  Attribute values are   *)
(* the strings the code stores, except that str(x) of a number x is kept as   *)
(* the number x; the .1f format of the path data is carried out.              *)

\* Bound of the re-rendering specification: to_svg calls per map.
MaxCalls == 2

Elem(tag, attrib, children) ==
    [tag |-> tag, attrib |-> attrib, children |-> children]

TextElem(tag, attrib, txt) ==
    [tag |-> tag, attrib |-> attrib, children |-> <<>>, text |-> txt]

\* Element.set
SetAttr(el, k, v) == [el EXCEPT !.attrib = (k :> v) @@ el.attrib]

\* Element.append
Append_(el, child) == [el EXCEPT !.children = Append(el.children, child)]

\* The string made of a sequence of characters.
Join(cs) ==
    LET F[k \in 0..Len(cs)] == IF k = 0 THEN "" ELSE F[k - 1] \o cs[k]
    IN  F[Len(cs)]

\* str(color) for a Color or None.
StrOfColor(c) == IF c = None THEN "None" ELSE Join(ColorStr(c))

\* str(n) of a whole number.
StrOfInt(q) == ToString(q.n)

\* str(x) of a stoichiometric coefficient: whole numbers as Python ints,
\* halves as floats.
StrOfCoeff(q) ==
    IF q.d = 1 THEN ToString(q.n)
    ELSE IF q.d = 2 THEN ToString(q.n \div 2) \o ".5"
    ELSE ToString(q.n) \o "/" \o ToString(q.d)

\* f"{x:.1f}": one decimal, ties to even.
Fmt1f(q) ==
    LET F[v \in Rat] ==
            LET a == 10 * Abs(v.n)
                fl == a \div v.d
                rem == a % v.d
                t == IF 2 * rem > v.d THEN fl + 1
                     ELSE IF 2 * rem = v.d THEN fl + (fl % 2)
                     ELSE fl
            IN  (IF v.n < 0 THEN "-" ELSE "")
                    \o ToString(t \div 10) \o "." \o ToString(t % 10)
    IN  F[q]

FmtPt(p) == LET F[v \in [x : Rat, y : Rat]] == Fmt1f(v.x) \o " " \o Fmt1f(v.y) IN F[p]

\* math.sqrt of a non-negative number: the integer square root of n*d over d.
Sqrt(q) ==
    LET F[m \in Nat, d \in Nat] ==
            Q(CHOOSE k \in 0..m : k * k <= m /\ m < (k + 1) * (k + 1), d)
    IN  F[q.n * q.d, q.d]

\* MapMetabolite.size
NodeSize(node) == IF node.primary THEN I(20) ELSE I(12)

\* A trimming that drops the radius along with the padding on short segments.
TrimmedLength_DropsRadius(l, size, has_arrow) ==
    With(QSub(QSub(l, size), IF has_arrow THEN I(20) ELSE I(10)), LAMBDA _l :
        IF QLt(_l, I(5)) THEN l ELSE _l)

\* Lines 424-428: the length _l kept of the approach to the metabolite
\* (padding 20 or 10, minlen 5).
TrimmedLength(l, size, has_arrow) ==
    With(QSub(QSub(l, size), IF has_arrow THEN I(20) ELSE I(10)), LAMBDA _l :
        IF QLt(_l, I(5)) THEN QSub(l, size) ELSE _l)

\* Lines 409-421: start, end, approach and the approach vector of a
\* metabolite segment.
Approach(seg, nodes) ==
    With(nodes[seg.from_node].center, LAMBDA start :
    With(nodes[seg.to_node].center, LAMBDA end :
    With(IF seg.b2 # None THEN seg.b2 ELSE start, LAMBDA approach :
    With(QSub(end.x, approach.x), LAMBDA dx :
    With(QSub(end.y, approach.y), LAMBDA dy :
        [start |-> start, end |-> end, approach |-> approach,
         dx |-> dx, dy |-> dy,
         l |-> Sqrt(QAdd(QMul(dx, dx), QMul(dy, dy)))])))))

\* Lines 424-430: the end of the path of a metabolite segment of length
\* l # 0, moved back along the approach.
TrimmedEnd(seg, nodes) ==
    With(Approach(seg, nodes), LAMBDA g :
    With(TrimmedLength(g.l, NodeSize(nodes[seg.to_node]), seg.has_arrow), LAMBDA _l :
    With(QDiv(_l, g.l), LAMBDA ratio :
        [x |-> QAdd(g.approach.x, QMul(g.dx, ratio)),
         y |-> QAdd(g.approach.y, QMul(g.dy, ratio))])))

\* Lines 432-439: the path of a metabolite segment that ends at end.
SegmentPath(seg, start, end) ==
    With(IF seg.b1 # None /\ seg.b2 # None
         THEN "M " \o FmtPt(start) \o " C " \o FmtPt(seg.b1)
                  \o " " \o FmtPt(seg.b2) \o " " \o FmtPt(end)
         ELSE "M " \o FmtPt(start) \o " L " \o FmtPt(end), LAMBDA d :
        Elem("path",
             IF seg.has_arrow
             THEN ("marker-end" :> "url(#arrowhead)") @@ [d |-> d]
             ELSE [d |-> d],
             <<>>))

\* A drawing that labels a segment only when its coefficient exceeds 1 in
\* absolute value.
SegmentToSvg_LabelsAboveOne(seg, nodes) ==
    IF seg.metabolite_id = None
    THEN Ok(Elem("path",
                 [d |-> "M " \o FmtPt(nodes[seg.from_node].center)
                            \o " L " \o FmtPt(nodes[seg.to_node].center)], <<>>))
    ELSE With(Approach(seg, nodes), LAMBDA g :
         IF g.l.n = 0 THEN Raise("ZeroDivisionError")
         ELSE With(TrimmedEnd(seg, nodes), LAMBDA end :
              With(QAbs(seg.count), LAMBDA count :
                   IF QLe(count, I(1)) THEN Ok(SegmentPath(seg, g.start, end))
                   ELSE Ok(Elem("g", <<>>,
                           <<SegmentPath(seg, g.start, end),
                             TextElem("text",
                                 [class |-> "label stoich",
                                  x |-> QAdd(end.x, QMul(QDiv(g.dy, g.l), I(24))),
                                  y |-> QSub(end.y, QMul(QDiv(g.dx, g.l), I(24)))],
                                 StrOfCoeff(count))>>)))))

\* MapSegment.to_svg
SegmentToSvg(seg, nodes) ==
    IF seg.metabolite_id = None
    THEN Ok(Elem("path",
                 [d |-> "M " \o FmtPt(nodes[seg.from_node].center)
                            \o " L " \o FmtPt(nodes[seg.to_node].center)], <<>>))
    ELSE With(Approach(seg, nodes), LAMBDA g :
         IF g.l.n = 0 THEN Raise("ZeroDivisionError")
         ELSE With(TrimmedEnd(seg, nodes), LAMBDA end :
              With(QAbs(seg.count), LAMBDA count :
                   IF count = I(1) THEN Ok(SegmentPath(seg, g.start, end))
                   ELSE Ok(Elem("g", <<>>,
                           <<SegmentPath(seg, g.start, end),
                             TextElem("text",
                                 [class |-> "label stoich",
                                  x |-> QAdd(end.x, QMul(QDiv(g.dy, g.l), I(24))),
                                  y |-> QSub(end.y, QMul(QDiv(g.dx, g.l), I(24)))],
                                 StrOfCoeff(count))>>)))))

\* The first failure of a sequence of outcomes, or the sequence of its values.
Collect(rs) ==
    With(rs, LAMBDA v :
        IF \E i \in 1..Len(v) : Raised(v[i])
        THEN v[CHOOSE i \in 1..Len(v) :
                   Raised(v[i]) /\ \A j \in 1..(i - 1) : ~Raised(v[j])]
        ELSE Ok([i \in 1..Len(v) |-> v[i].val]))

\* Lines 366-374: the overrides MapReaction.to_svg applies to the element a
\* segment returned.
OverrideArc(arc, seg, st, direction) ==
    With(IF st.color # None THEN SetAttr(arc, "stroke", StrOfColor(st.color))
         ELSE arc, LAMBDA a1 :
    With(IF st.size # None THEN SetAttr(a1, "stroke-width", st.size)
         ELSE a1, LAMBDA a2 :
        IF direction # None /\ seg.count # None
        THEN IF QLt(I(0), QMul(seg.count, direction))
             THEN SetAttr(a2, "marker-end", "url(#arrowhead)")
             ELSE SetAttr(a2, "marker-end", "")
        ELSE a2))

\* dict.get on an overlay mapping.
Get(mapping, key) == IF key \in DOMAIN mapping THEN mapping[key] ELSE None

\* MapReaction.to_svg
ReactionToSvg(rxn, m, val, direction) ==
    With(IF val # None /\ m.reaction_scale # None
         THEN style(m.reaction_scale, val)
         ELSE Ok(MkStyle(None, None)), LAMBDA st :
        IF Raised(st) THEN st
        ELSE With(Collect([i \in 1..Len(rxn.segments) |->
                      With(SegmentToSvg(rxn.segments[i], m.all_nodes), LAMBDA arc :
                          IF Raised(arc) THEN arc
                          ELSE Ok(OverrideArc(arc.val, rxn.segments[i],
                                              st.val, direction)))]), LAMBDA arcs :
             IF Raised(arcs) THEN arcs
             ELSE Ok(Elem("g", [name |-> rxn.reaction_id],
                          arcs.val \o
                          <<TextElem("text",
                                [class |-> "label",
                                 x |-> rxn.label_pos.x, y |-> rxn.label_pos.y],
                                rxn.reaction_id)>>))))

\* Line 327: the circle of a metabolite before any override.
Circle(node) ==
    Elem("circle",
         [cx |-> node.center.x, cy |-> node.center.y, r |-> NodeSize(node)], <<>>)

\* MapMetabolite.to_svg
MetaboliteToSvg(node, m, val) ==
    With(IF val # None /\ m.metabolite_scale # None
         THEN style(m.metabolite_scale, val)
         ELSE None, LAMBDA st :
        IF Raised(st) THEN st
        ELSE Ok(Elem("g", [name |-> node.metabolite_id],
                     <<IF st = None THEN Circle(node)
                       ELSE SetAttr(SetAttr(SetAttr(Circle(node),
                                "fill", StrOfColor(st.val.color)),
                                "stroke", "none"),
                                "r", st.val.size),
                       TextElem("text",
                           [class |-> "label",
                            x |-> node.label_pos.x, y |-> node.label_pos.y],
                           node.metabolite_id)>>)))

\* Truthiness of an optional mapping: None and the empty mapping are false.
MappingTruthy(mapping) == mapping # None /\ DOMAIN mapping # {}

Defs ==
    Elem("defs", <<>>,
         <<TextElem("style", [type |-> "text/css"], "CSS"),
           Elem("marker",
                [id |-> "arrowhead", viewBox |-> "0 -10 13 20", refX |-> "2",
                 refY |-> "0", markerUnits |-> "strokeWidth", markerWidth |-> "2",
                 markerHeight |-> "2", orient |-> "auto"],
                <<Elem("path",
                       [d |-> "M 0 -10 L 13 0 L 0 10 Z", fill |-> "#334e75",
                        stroke |-> "none"], <<>>)>>)>>)

\* Lines 250-254: the reactions group and its default stroke.
ReactionsGroup(reaction_data) ==
    IF MappingTruthy(reaction_data)
    THEN Elem("g", ("stroke-width" :> I(5)) @@
                   [id |-> "reactions", fill |-> "none", stroke |-> "#eeeeee"], <<>>)
    ELSE Elem("g", ("stroke-width" :> I(10)) @@
                   [id |-> "reactions", fill |-> "none", stroke |-> "#334e75"], <<>>)

\* Lines 267-272: the metabolites group and its default fill and stroke.
MetabolitesGroup(metabolite_data) ==
    IF MappingTruthy(metabolite_data)
    THEN Elem("g", ("stroke-width" :> I(2)) @@
                   [id |-> "metabolites", fill |-> "#eeeeee", stroke |-> "none"], <<>>)
    ELSE Elem("g", ("stroke-width" :> I(2)) @@
                   [id |-> "metabolites", fill |-> "#e0865b", stroke |-> "#a24510"], <<>>)

\* Line 240-247: the background canvas.
Canvas(m) ==
    Elem("rect",
         [id |-> "canvas", x |-> StrOfInt(m.origin.x), y |-> StrOfInt(m.origin.y),
          width |-> StrOfInt(m.size.x), height |-> StrOfInt(m.size.y)], <<>>)

\* A drawing that takes a missing reaction_direction as the empty mapping.
DrawReactions_NoFallback(m, rdata, reaction_direction) ==
    Collect([i \in 1..Len(m.reactions) |->
        ReactionToSvg(m.reactions[i], m,
                      Get(rdata, m.reactions[i].reaction_id),
                      Get(IF reaction_direction = None THEN <<>>
                          ELSE reaction_direction,
                          m.reactions[i].reaction_id))])

\* Lines 257-264: the reactions drawn with the mappings as the code rebinds
\* them, a missing reaction_data as {} and a missing reaction_direction as
\* reaction_data.
DrawReactions(m, rdata, reaction_direction) ==
    Collect([i \in 1..Len(m.reactions) |->
        ReactionToSvg(m.reactions[i], m,
                      Get(rdata, m.reactions[i].reaction_id),
                      Get(IF reaction_direction = None THEN rdata
                          ELSE reaction_direction,
                          m.reactions[i].reaction_id))])

\* Lines 275-279: the metabolites drawn, a missing metabolite_data as {}.
DrawMetabolites(m, mdata) ==
    Collect([i \in 1..Len(m.metabolites) |->
        MetaboliteToSvg(m.all_nodes[m.metabolites[i]], m,
                        Get(mdata, m.all_nodes[m.metabolites[i]].metabolite_id))])

\* EscherMap.to_svg
EscherMapToSvg(m, metabolite_data, reaction_data, reaction_direction) ==
    With(DrawReactions(m, IF reaction_data = None THEN <<>> ELSE reaction_data,
                       reaction_direction), LAMBDA rxns :
        IF Raised(rxns) THEN rxns
        ELSE With(DrawMetabolites(m, IF metabolite_data = None THEN <<>>
                                     ELSE metabolite_data), LAMBDA mets :
             IF Raised(mets) THEN mets
             ELSE Ok(Elem("svg",
                  [width |-> IF m.width = None THEN "None" ELSE m.width,
                   height |-> IF m.height = None THEN "None" ELSE m.height,
                   viewBox |-> StrOfInt(m.origin.x) \o " " \o StrOfInt(m.origin.y)
                               \o " " \o StrOfInt(m.size.x) \o " " \o StrOfInt(m.size.y)],
                  <<Defs,
                    Elem("g", [id |-> "eschermap"],
                         <<Canvas(m),
                           [ReactionsGroup(reaction_data) EXCEPT !.children = rxns.val],
                           [MetabolitesGroup(metabolite_data) EXCEPT !.children = mets.val]
                         >>)>>))))

\* The overlays handed to to_svg: absent, empty, or one entry.
MetaboliteData == {None, <<>>, ("A" :> I(50))}

ReactionData == {None, <<>>, ("R1" :> I(-50)), ("R1" :> I(50))}

ReactionDirection == {None, <<>>, ("R1" :> I(-1)), ("R1" :> I(0)), ("R1" :> I(1))}

CallArgs(md, rd, dir) ==
    [metabolite_data |-> md, reaction_data |-> rd, reaction_direction |-> dir]

\* The calls made on a map that is rendered once.
SingleCalls ==
    {CallArgs(md, rd, dir) :
        md \in MetaboliteData, rd \in ReactionData, dir \in ReactionDirection}

\* The calls made on a map that is rendered again and again: each overlay
\* absent or given, reaction_data also empty.
RepeatedCalls ==
    {CallArgs(md, rd, dir) :
        md \in {None, "A" :> I(50)},
        rd \in {None, <<>>, "R1" :> I(50)},
        dir \in {None, "R1" :> I(-1)}}

\* The metabolite segments of a map that to_svg can trim.
TrimmableSegments(m) ==
    {seg \in UNION {{m.reactions[i].segments[j] :
                        j \in 1..Len(m.reactions[i].segments)} :
                    i \in 1..Len(m.reactions)} :
        seg.metabolite_id # None /\ Approach(seg, m.all_nodes).l.n # 0}

\* A rendering that writes the trimmed end of a segment into the centre of
\* the node it ends at.
ToSvgEffect_MovesNodes(m, md, rd, dir) ==
    [self |-> [m EXCEPT !.all_nodes =
                  [id \in DOMAIN m.all_nodes |->
                      IF \E seg \in TrimmableSegments(m) : seg.to_node = id
                      THEN [m.all_nodes[id] EXCEPT !.center =
                              TrimmedEnd(CHOOSE seg \in TrimmableSegments(m) :
                                             seg.to_node = id, m.all_nodes)]
                      ELSE m.all_nodes[id]]],
     args |-> CallArgs(md, rd, dir)]

\* What a to_svg call leaves of the objects it was given: the map and the
\* overlay mappings.  Lines 212-281 assign to locals only (lines 257-260 and
\* 275-276 rebind the parameters), and so do the to_svg methods they call.
ToSvgEffect(m, md, rd, dir) ==
    [self |-> m, args |-> CallArgs(md, rd, dir)]

NoTrack == [t |-> "NoTrack"]

\* The maps of the re-rendering specification: straight, curved and swapped
\* segments into the primary metabolite, with and without a scale.
RerenderArgs ==
    {a \in MapArgs :
        LET r == a.map_json.reactions[1]
        IN  /\ r.segments[1] \in {SegJson("c1", "mA", None, None),
                                  SegJson("mA", "mB", Pt(30, 20), Pt(30, 10))}
            /\ r.segments[2] = SegJson("mB", "c1", Pt(20, 0), Pt(10, 0))
            /\ r.metabolites[1].coefficient \in {I(-1), Q(3, 2)}
            /\ Len(r.metabolites) = 2}

InitRerender ==
    /\ doc \in RerenderArgs
    /\ emap = None /\ call = None /\ svg = None
    /\ first = None /\ ncalls = 0
    /\ ColorIdle /\ ScaleIdle

InitMap ==
    /\ doc \in MapArgs
    /\ emap = None /\ call = None /\ svg = None
    /\ first = NoTrack /\ ncalls = 0
    /\ ColorIdle /\ ScaleIdle

\* emap = EscherMap(doc...)
Build ==
    /\ emap = None
    /\ emap' = EscherMapInit(doc)
    /\ UNCHANGED <<doc, call, svg, first, ncalls, colorVars, scaleVars>>

\* svg = emap.to_svg(...).  Untracked, one call per map is looked at;
\* tracked, up to MaxCalls calls in a row.
Render ==
    /\ IsOk(emap)
    /\ IF first = NoTrack THEN svg = None ELSE ncalls < MaxCalls
    /\ \E a \in (IF first = NoTrack THEN SingleCalls ELSE RepeatedCalls) :
          \E out \in {EscherMapToSvg(emap.val, a.metabolite_data, a.reaction_data,
                                     a.reaction_direction)},
             eff \in {ToSvgEffect(emap.val, a.metabolite_data, a.reaction_data,
                                  a.reaction_direction)} :
              /\ svg' = out
              /\ emap' = Ok(eff.self)
              /\ call' = [args |-> a, after |-> eff.args]
              /\ first' = IF first = None
                          THEN [self |-> emap.val, args |-> a, svg |-> out]
                          ELSE first
    /\ ncalls' = IF first = NoTrack THEN 0 ELSE ncalls + 1
    /\ UNCHANGED <<doc, colorVars, scaleVars>>

NextMap == Build \/ Render

SpecMap == InitMap /\ [][NextMap]_vars

SpecRerender == InitRerender /\ [][NextMap]_vars

-----------------------------------------------------------------------------
(* Claims about Color *)

\* A well-formed '#rrggbb' literal: 7 characters, '#', then 6 hex digits.
WellFormedHex(h) ==
    /\ Len(h) = 7
    /\ h[1] = "#"
    /\ \A i \in 2..7 : IsHexDigit(h[i])

IsByte(x) == x.d = 1 /\ x.n \in 0..255

\* C4: Color.from_hex(s) succeeds only when s is exactly 7 characters, starts
\* with '#' and the other 6 characters are hexadecimal digits, and then every
\* channel is an integer in 0..255; on every other string it fails with the
\* format error (ValueError) and yields no Color.
C4_FromHexAcceptsOnlyHexLiterals ==
    (color # None /\ nops = 0) =>
        /\ IsOk(color) <=> WellFormedHex(hexstr)
        /\ IsOk(color) =>
              IsByte(color.val.r) /\ IsByte(color.val.g) /\ IsByte(color.val.b)
        /\ ~WellFormedHex(hexstr) => color = Raise("ValueError")

Clamp255(k) == IF k < 0 THEN 0 ELSE IF k > 255 THEN 255 ELSE k

\* The two lowercase hex digits of a channel rounded and clamped into 0..255.
ClampedChannelStr(x) == ZeroPad(HexOf(Clamp255(QRound(x))), 2)

\* C5: for every Color, also one whose channels left 0..255 through the
\* arithmetic, str() yields '#' followed by exactly six lowercase hex digits,
\* each channel rounded to the nearest integer and clamped into 0..255.
C5_StrClampsToSixHexDigits ==
    (text # None /\ IsOk(color)) =>
        /\ Len(text) = 7
        /\ text = <<"#">> \o ClampedChannelStr(color.val.r)
                          \o ClampedChannelStr(color.val.g)
                          \o ClampedChannelStr(color.val.b)

-----------------------------------------------------------------------------
(* Claims about Scale *)

\* The constructed scale's stops, and the value the last style() call worked on.
Stops == scale.val.stops

NStops == Len(Stops)

Styling == IsOk(scale) /\ value # None

EffVal == IF useAbs THEN QAbs(value) ELSE value

StopStyle(st) == MkStyle(st.color, st.size)

\* The blend p*ub + (1-p)*lb of two stops at v, for color and for size, each
\* present when both stops define it.
LinearBlend(lb, ub, v) ==
    LET p == QDiv(QSub(v, lb.value), QSub(ub.value, lb.value))
        q == QSub(I(1), p)
    IN  MkStyle(
            IF lb.color # None /\ ub.color # None
                THEN MkColor(QAdd(QMul(p, ub.color.r), QMul(q, lb.color.r)),
                             QAdd(QMul(p, ub.color.g), QMul(q, lb.color.g)),
                             QAdd(QMul(p, ub.color.b), QMul(q, lb.color.b)))
                ELSE None,
            IF lb.size # None /\ ub.size # None
                THEN QAdd(QMul(p, ub.size), QMul(q, lb.size))
                ELSE None)

\* Stops that construction is to reject: fewer than 2, or color given on some
\* stops and not on others, or likewise size.
InvalidStops(m) ==
    \/ Cardinality(DOMAIN m) < 2
    \/ \E j, k \in DOMAIN m : (m[j].color = None) # (m[k].color = None)
    \/ \E j, k \in DOMAIN m : (m[j].size = None) # (m[k].size = None)

\* C1: for a value within [smallest stop value, largest stop value] style()
\* returns the linear blend p*ub + (1-p)*lb of two adjacent stops bracketing
\* it, for color and independently for size whenever the stops define them;
\* at a stop's value the result is exactly that stop's (color, size).  Stated
\* in the reading most favourable to the code: on scales of at least two
\* stops that give color and size consistently, and on the value style()
\* works on (the absolute value under use_abs).
C1_StyleIsLinearBlend ==
    (/\ Styling
     /\ ~InvalidStops(stopsIn)
     /\ QLe(Stops[1].value, EffVal)
     /\ QLe(EffVal, Stops[NStops].value)) =>
        /\ IsOk(styled)
        /\ \E i \in 1..(NStops - 1) :
              /\ QLe(Stops[i].value, EffVal)
              /\ QLe(EffVal, Stops[i + 1].value)
              /\ styled.val = LinearBlend(Stops[i], Stops[i + 1], EffVal)
        /\ \A i \in 1..NStops :
              Stops[i].value = EffVal => styled.val = StopStyle(Stops[i])

\* C2 as stated: on a scale of at least 2 stops, whatever its use_abs flag,
\* an input value below the smallest stop value is styled exactly as the
\* smallest stop, and one above the largest stop value exactly as the largest.
C2_InputOutsideRangeIsPegged ==
    (Styling /\ NStops >= 2) =>
        /\ QLt(value, Stops[1].value) => styled = Ok(StopStyle(Stops[1]))
        /\ QLt(Stops[NStops].value, value) => styled = Ok(StopStyle(Stops[NStops]))

\* C2 as amended: on a scale of at least 2 stops, when the value style() works
\* on (the absolute value of the input under use_abs, the input otherwise) is
\* below the smallest stop value the result is exactly the smallest stop's
\* (color, size), and when it is above the largest, exactly the largest's.
C2_EffectiveValueOutsideRangeIsPegged ==
    (Styling /\ NStops >= 2) =>
        /\ QLt(EffVal, Stops[1].value) => styled = Ok(StopStyle(Stops[1]))
        /\ QLt(Stops[NStops].value, EffVal) => styled = Ok(StopStyle(Stops[NStops]))

\* A use_abs scale whose smallest stop is positive pegs a negative input of
\* small magnitude to the smallest stop, and the two ends differ in style.
C2_Witness ==
    /\ Styling /\ NStops >= 2 /\ useAbs
    /\ value.n < 0
    /\ QLt(EffVal, Stops[1].value)
    /\ StopStyle(Stops[1]) # StopStyle(Stops[NStops])
    /\ styled = Ok(StopStyle(Stops[1]))

\* C3: constructing a Scale from fewer than 2 stops, or from stops that give
\* color (or size) on some stops only, fails at construction; so no style()
\* call happens on such a scale, and every constructed scale has at least 2
\* stops in ascending order of value.
C3_ConstructionValidates ==
    /\ (scale # None /\ InvalidStops(stopsIn)) => Raised(scale)
    /\ IsOk(scale) =>
          /\ NStops >= 2
          /\ \A i \in 1..(NStops - 1) : QLt(Stops[i].value, Stops[i + 1].value)
    /\ styled # None => ~InvalidStops(stopsIn)

-----------------------------------------------------------------------------
(* Claims about the map model and its rendering *)

Map == emap.val

\* The positions <<r, i>> of the segments of the constructed map.
SegIndex ==
    {<<r, i>> \in (1..Len(Map.reactions)) \X (1..2) :
        i <= Len(Map.reactions[r].segments)}

SegAt(ri) == Map.reactions[ri[1]].segments[ri[2]]

\* The segment of the document that SegAt(ri) was built from.
SegJsonAt(ri) == doc.map_json.reactions[ri[1]].segments[ri[2]]

IsMetNode(id) == NodesJson[id].node_type = "metabolite"

\* C6 as stated: after construction, every metabolite node that is an
\* endpoint of a segment is that segment's to endpoint, whatever pair of
\* nodes the segment joins; when the endpoints were swapped for this, b1 and
\* b2 were swapped as well.
C6_EveryMetaboliteEndpointIsTo ==
    IsOk(emap) =>
        \A ri \in SegIndex :
            LET sg == SegAt(ri)
                js == SegJsonAt(ri)
            IN  /\ \A id \in {sg.from_node, sg.to_node} :
                       IsMetNode(id) => id = sg.to_node
                /\ (sg.to_node = js.from_node_id /\ sg.from_node = js.to_node_id
                        /\ js.from_node_id # js.to_node_id)
                     => (sg.b1 = js.b2 /\ sg.b2 = js.b1)

\* C6 as amended: after construction, every segment with a metabolite among
\* its endpoints has a metabolite as its to endpoint; when exactly one of the
\* two endpoints is a metabolite, that metabolite is the to endpoint and the
\* from endpoint is no metabolite; the endpoints are swapped exactly when the
\* document gives a metabolite as from, and then b1 and b2 are swapped too.
C6_SegmentsEndAtAMetabolite ==
    IsOk(emap) =>
        \A ri \in SegIndex :
            LET sg == SegAt(ri)
                js == SegJsonAt(ri)
            IN  /\ (IsMetNode(sg.from_node) \/ IsMetNode(sg.to_node))
                     => IsMetNode(sg.to_node)
                /\ (IsMetNode(js.from_node_id) # IsMetNode(js.to_node_id))
                     => ~IsMetNode(sg.from_node)
                /\ IF IsMetNode(js.from_node_id)
                   THEN /\ sg.from_node = js.to_node_id
                        /\ sg.to_node = js.from_node_id
                        /\ sg.b1 = js.b2 /\ sg.b2 = js.b1
                   ELSE /\ sg.from_node = js.from_node_id
                        /\ sg.to_node = js.to_node_id
                        /\ sg.b1 = js.b1 /\ sg.b2 = js.b2

\* A segment written from a metabolite to a marker, with different control
\* points, was turned around.
C6_Witness ==
    /\ IsOk(emap)
    /\ \E ri \in SegIndex :
          /\ IsMetNode(SegJsonAt(ri).from_node_id)
          /\ ~IsMetNode(SegJsonAt(ri).to_node_id)
          /\ SegJsonAt(ri).b1 # SegJsonAt(ri).b2
          /\ SegAt(ri).to_node = SegJsonAt(ri).from_node_id
          /\ SegAt(ri).b1 = SegJsonAt(ri).b2

\* The rendered tree: the reactions group, a reaction's group, the element
\* drawn for a segment, and the path in it.
ReactionsOf(root) == root.children[2].children[2]

MetabolitesOf(root) == root.children[2].children[3]

ArcAt(root, ri) == ReactionsOf(root).children[ri[1]].children[ri[2]]

PathOf(arc) == IF arc.tag = "path" THEN arc ELSE arc.children[1]

HasAttr(el, k) == k \in DOMAIN el.attrib

\* The marker-end in force on the path drawn for a segment: its own
\* attribute, or else the one of the group around it.
MarkerInForce(arc) ==
    IF HasAttr(PathOf(arc), "marker-end") THEN PathOf(arc).attrib["marker-end"]
    ELSE IF HasAttr(arc, "marker-end") THEN arc.attrib["marker-end"]
    ELSE ""

DrawsArrow(arc) == MarkerInForce(arc) = "url(#arrowhead)"

\* The direction value a call gives for a reaction in its reaction_direction
\* mapping, None when the mapping is absent or has no entry.
GivenDirection(rid) ==
    IF call.args.reaction_direction = None THEN None
    ELSE Get(call.args.reaction_direction, rid)

\* C7: in a render call that gives a reaction a direction value, the path
\* drawn for each of its metabolite-ending segments, whatever its
\* coefficient, references the arrowhead marker if and only if
\* sign(count) * sign(direction) > 0.
C7_DirectionDecidesArrowhead ==
    (IsOk(emap) /\ IsOk(svg)) =>
        \A ri \in SegIndex :
            LET dir == GivenDirection(Map.reactions[ri[1]].reaction_id)
            IN  (dir # None /\ SegAt(ri).metabolite_id # None) =>
                    (DrawsArrow(ArcAt(svg.val, ri))
                        <=> Sign(SegAt(ri).count.n) * Sign(dir.n) > 0)

\* The value a call gives an entity in a mapping, None when there is none.
GivenValue(mapping, id) == IF mapping = None THEN None ELSE Get(mapping, id)

\* C8: rendering is total: every to_svg call on a constructed map returns,
\* whatever overlays are given or left out, also when a segment's approach
\* point is the metabolite's centre; an entity without overlay value is drawn
\* with the default styling (no stroke, width, fill or radius override).
C8_RenderingIsTotal ==
    svg # None =>
        /\ IsOk(svg)
        /\ \A r \in 1..Len(Map.reactions) :
              GivenValue(call.args.reaction_data, Map.reactions[r].reaction_id) = None
                => \A i \in 1..Len(Map.reactions[r].segments) :
                      /\ ~HasAttr(ArcAt(svg.val, <<r, i>>), "stroke")
                      /\ ~HasAttr(ArcAt(svg.val, <<r, i>>), "stroke-width")
        /\ \A k \in 1..Len(Map.metabolites) :
              LET node == Map.all_nodes[Map.metabolites[k]]
                  circle == MetabolitesOf(svg.val).children[k].children[1]
              IN  GivenValue(call.args.metabolite_data, node.metabolite_id) = None
                    => /\ ~HasAttr(circle, "fill") /\ ~HasAttr(circle, "stroke")
                       /\ circle.attrib.r = (IF node.primary THEN I(20) ELSE I(12))

\* The trimmed length the claim gives for approach length l, radius r and
\* padding pad.
ClaimedTrim(l, r, pad) ==
    IF QLe(I(5), QSub(QSub(l, r), pad)) THEN QSub(QSub(l, r), pad) ELSE QSub(l, r)

\* C9: for every metabolite-ending segment with approach length L, radius r
\* (20 if primary else 12) and padding (20 if hasArrow else 10), the trimmed
\* length that places the new endpoint is L - r - padding when that is at
\* least 5 and L - r otherwise, never negative when L > r: the endpoint is
\* approach + (dx, dy) * trimmed / L, and a stoichiometry label drawn for the
\* segment sits 24 units beside that point.
C9_TrimmedLength ==
    IsOk(emap) =>
        \A ri \in SegIndex :
            LET sg == SegAt(ri)
                g == Approach(sg, Map.all_nodes)
                r == IF Map.all_nodes[sg.to_node].primary THEN I(20) ELSE I(12)
                pad == IF sg.has_arrow THEN I(20) ELSE I(10)
                t == ClaimedTrim(g.l, r, pad)
                ex == QAdd(g.approach.x, QDiv(QMul(g.dx, t), g.l))
                ey == QAdd(g.approach.y, QDiv(QMul(g.dy, t), g.l))
            IN  (sg.metabolite_id # None /\ g.l.n # 0) =>
                    /\ TrimmedLength(g.l, NodeSize(Map.all_nodes[sg.to_node]),
                                     sg.has_arrow) = t
                    /\ QLt(r, g.l) => QLe(I(0), t)
                    /\ TrimmedEnd(sg, Map.all_nodes) = [x |-> ex, y |-> ey]
                    /\ (IsOk(svg) /\ ArcAt(svg.val, ri).tag = "g") =>
                          LET label == ArcAt(svg.val, ri).children[2]
                          IN  /\ label.attrib.x
                                   = QAdd(ex, QMul(QDiv(g.dy, g.l), I(24)))
                              /\ label.attrib.y
                                   = QSub(ey, QMul(QDiv(g.dx, g.l), I(24)))

\* A rendered segment longer than its node's radius and shorter than radius
\* plus padding plus 5, drawn with a stoichiometry label.
C9_Witness ==
    /\ IsOk(emap) /\ IsOk(svg)
    /\ \E ri \in SegIndex :
          LET sg == SegAt(ri)
              g == Approach(sg, Map.all_nodes)
          IN  /\ sg.metabolite_id # None
              /\ sg.has_arrow
              /\ Map.all_nodes[sg.to_node].primary
              /\ g.l = I(30)
              /\ ArcAt(svg.val, ri).tag = "g"
              /\ TrimmedLength(g.l, NodeSize(Map.all_nodes[sg.to_node]),
                               sg.has_arrow) = I(10)

Tracked == first # None /\ first # NoTrack

C11_NoDirectionsMeansStaticArrows ==
    (IsOk(emap) /\ IsOk(svg) /\ call.args.reaction_direction = None) =>
        \A ri \in SegIndex :
            SegAt(ri).metabolite_id # None =>
                (DrawsArrow(ArcAt(svg.val, ri)) <=> SegAt(ri).has_arrow)

\* C11 as amended: in a render call without a reaction_direction mapping the
\* reaction_data mapping stands in for it.  A metabolite-ending segment of a
\* reaction without a value in reaction_data (or when reaction_data is not
\* given either) is drawn with an arrowhead if and only if has_arrow, and its
\* element gets no marker-end override; for a reaction with a value v the
\* element drawn for the segment gets the marker-end override of a direction
\* v: the arrowhead reference if sign(count) * sign(v) > 0, the empty
\* reference otherwise.
C11_ValuesStandInForDirections ==
    (IsOk(emap) /\ IsOk(svg) /\ call.args.reaction_direction = None) =>
        \A ri \in SegIndex :
            LET v == GivenValue(call.args.reaction_data,
                                Map.reactions[ri[1]].reaction_id)
                arc == ArcAt(svg.val, ri)
            IN  SegAt(ri).metabolite_id # None =>
                    IF v = None
                    THEN /\ DrawsArrow(arc) <=> SegAt(ri).has_arrow
                         /\ HasAttr(arc, "marker-end")
                               => (arc.tag = "path" /\ SegAt(ri).has_arrow)
                    ELSE /\ HasAttr(arc, "marker-end")
                         /\ arc.attrib["marker-end"]
                               = (IF Sign(SegAt(ri).count.n) * Sign(v.n) > 0
                                  THEN "url(#arrowhead)" ELSE "")

\* A call with reaction values and no directions, on a map with a segment
\* that has_arrow and whose coefficient disagrees in sign with the value.
C11_Witness ==
    /\ IsOk(emap) /\ IsOk(svg)
    /\ call.args.reaction_direction = None
    /\ \E ri \in SegIndex :
          LET v == GivenValue(call.args.reaction_data,
                              Map.reactions[ri[1]].reaction_id)
          IN  /\ SegAt(ri).metabolite_id # None
              /\ SegAt(ri).has_arrow
              /\ v # None
              /\ Sign(SegAt(ri).count.n) * Sign(v.n) < 0
              /\ ArcAt(svg.val, ri).attrib["marker-end"] = ""

\* C12: in every render call that was given a reaction overlay mapping,
\* whatever its contents (also one without entries), the reactions group
\* carries the de-emphasized stroke and width, and without one the normal
\* defaults; the same for the metabolites group and the metabolite overlay
\* mapping (faint fill, no stroke).
C12_SuppliedMappingDeemphasizes ==
    IsOk(svg) =>
        /\ ReactionsOf(svg.val).attrib.stroke
              = (IF call.args.reaction_data # None THEN "#eeeeee" ELSE "#334e75")
        /\ ReactionsOf(svg.val).attrib["stroke-width"]
              = (IF call.args.reaction_data # None THEN I(5) ELSE I(10))
        /\ MetabolitesOf(svg.val).attrib.fill
              = (IF call.args.metabolite_data # None THEN "#eeeeee" ELSE "#e0865b")
        /\ MetabolitesOf(svg.val).attrib.stroke
              = (IF call.args.metabolite_data # None THEN "none" ELSE "#a24510")

\* The element drawn for a segment carries a stoichiometry label.
HasStoichLabel(arc) ==
    /\ arc.tag = "g"
    /\ \E k \in 1..Len(arc.children) :
          /\ arc.children[k].tag = "text"
          /\ arc.children[k].attrib.class = "label stoich"

\* The element drawn for a segment is a bare path.
IsBarePath(arc) == arc.tag = "path" /\ arc.children = <<>>

\* The text of the stoichiometry label of a labelled segment.
StoichLabelText(arc) ==
    arc.children[CHOOSE k \in 1..Len(arc.children) :
                     /\ arc.children[k].tag = "text"
                     /\ arc.children[k].attrib.class = "label stoich"].text

\* C13 as stated: a metabolite-ending segment is drawn with a stoichiometry
\* label (class "label stoich", text the absolute value of the coefficient)
\* if and only if |count| > 1; with |count| <= 1, zero and fractions
\* included, it is drawn as a bare path without label.
C13_LabelIffAboveOne ==
    (IsOk(emap) /\ IsOk(svg)) =>
        \A ri \in SegIndex :
            SegAt(ri).metabolite_id # None =>
                IF QLt(I(1), QAbs(SegAt(ri).count))
                THEN /\ HasStoichLabel(ArcAt(svg.val, ri))
                     /\ StoichLabelText(ArcAt(svg.val, ri))
                           = StrOfCoeff(QAbs(SegAt(ri).count))
                ELSE /\ ~HasStoichLabel(ArcAt(svg.val, ri))
                     /\ IsBarePath(ArcAt(svg.val, ri))

\* C13 as amended: a metabolite-ending segment is drawn with a stoichiometry
\* label (class "label stoich", text the absolute value of the coefficient)
\* if and only if |count| # 1; only with |count| = 1 it is drawn as a bare
\* path without label.
C13_LabelIffNotOne ==
    (IsOk(emap) /\ IsOk(svg)) =>
        \A ri \in SegIndex :
            SegAt(ri).metabolite_id # None =>
                IF QAbs(SegAt(ri).count) # I(1)
                THEN /\ HasStoichLabel(ArcAt(svg.val, ri))
                     /\ StoichLabelText(ArcAt(svg.val, ri))
                           = StrOfCoeff(QAbs(SegAt(ri).count))
                ELSE /\ ~HasStoichLabel(ArcAt(svg.val, ri))
                     /\ IsBarePath(ArcAt(svg.val, ri))

\* A rendered map with a segment of coefficient one half in absolute value,
\* labelled "0.5", and a segment of coefficient one drawn as a bare path.
C13_Witness ==
    /\ IsOk(emap) /\ IsOk(svg)
    /\ \E ri \in SegIndex :
          /\ SegAt(ri).metabolite_id # None
          /\ QAbs(SegAt(ri).count) = Q(1, 2)
          /\ HasStoichLabel(ArcAt(svg.val, ri))
          /\ StoichLabelText(ArcAt(svg.val, ri)) = "0.5"

====
